---- MODULE Spec2Model ----
(***************************************************************************)
(* Model of the life-tracker page component (src/app/page.tsx): the React  *)
(* blocks state of Home, the queue of state updates that React applies at  *)
(* the next render, the three effects                                      *)
(* (storage load, storage save, recurring generation), the localStorage    *)
(* item "blocks", and the wall clock that Date.now() and todayStr() read.  *)
(*                                                                         *)
(* Representation:                                                         *)
(*  - a calendar date string "YYYY-MM-DD" is represented by its day number *)
(*    (days since the epoch, UTC): toISOString().split("T")[0] is a        *)
(*    one-to-one function of the UTC day, and the code only compares date  *)
(*    strings for equality.  Local-date arithmetic (setDate(getDate()-i))  *)
(*    is taken in a zone with a fixed offset, where it is day - i.         *)
(*  - Date.now() is the counter now; one day has MsPerDay ticks.           *)
(*  - a number Date.now() + Math.random() is the integer                   *)
(*    now * RandRes + r with r in 0..RandRes-1, and a number Date.now() is *)
(*    now * RandRes.                                                       *)
(*  - a title is a sequence of characters.                                 *)
(*  - the form fields newBlock, category and isRecurring are read by       *)
(*    addBlock only, from the closure of the last render: they are the     *)
(*    inputs of addBlock.  addBlock's setNewBlock("") and                  *)
(*    setIsRecurring(false) clear the form at the next render, after which *)
(*    the inputs are drawn afresh; the calls between two renders read the  *)
(*    same closure and so the same inputs.                                 *)
(***************************************************************************)
EXTENDS Integers, Sequences, FiniteSets, TLC

(* ---------- bounds ---------- *)
\* Spec: the blocks the user adds, the days the clock runs through
MaxBlocks == 2
MaxDay == 2
\* SpecDays: the blocks the user adds, the days the clock runs through, the
\* blocks a store grows to
MaxOwnBlocks == 1
MaxRecurDays == 3
MaxStore == 4
\* clock ticks in a day, values of Math.random(), handler calls between renders
MsPerDay == 3
RandRes == 2
MaxPending == 2

(* ---------- TYPES ---------- *)
Category == {"Work", "Health", "Skill", "Personal"}

\* what the user has typed and picked in the form when addBlock is called in
\* the explored runs: <<newBlock, category>>
FormInputs == {<<<< >>, "Work">>, <<<<" ">>, "Work">>, <<<<"R", "u", "n">>, "Health">>}

NoDay == -1
NoId == -1

\* a value of type Block
Block(id, title, completed, category, date, isRecurring, order) ==
  [id |-> id, title |-> title, completed |-> completed, category |-> category,
   date |-> date, isRecurring |-> isRecurring, order |-> order]

\* the object {...undefined, order: i}: every field but order is undefined
\* (undefined is falsy, and equal to no date and to no id)
OrderOnly(i) ==
  Block(NoId, <<"undefined">>, FALSE, "undefined", NoDay, FALSE, i)

VARIABLES
  blocks,       \* useState<Block[]>: the value seen by the last render
  pending,      \* state updates queued by setState calls, applied at the next render
  today,        \* const today = todayStr() of the last render
  depToday,     \* the [today] dependency the recurring effect last ran with
  storage,      \* localStorage item "blocks"
  now,          \* the wall clock, Date.now()
  pc,           \* what the component does next: an effect, or idle, or crashed
  untouched     \* history: no handler has run since Home was constructed

vars == <<blocks, pending, today, depToday, storage, now, pc, untouched>>

(* ---------- HELPERS ---------- *)
Min(a, b) == IF a < b THEN a ELSE b
Max(a, b) == IF a > b THEN a ELSE b

\* new Date().toISOString().split("T")[0]
todayStr(t) == t \div MsPerDay

\* String.prototype.trim: drop leading and trailing white space
RECURSIVE TrimLeft(_)
TrimLeft(s) ==
  IF s # << >> /\ Head(s) = " " THEN TrimLeft(Tail(s)) ELSE s

RECURSIVE TrimRight(_)
TrimRight(s) ==
  IF s # << >> /\ s[Len(s)] = " " THEN TrimRight(SubSeq(s, 1, Len(s) - 1)) ELSE s

trim(s) == TrimRight(TrimLeft(s))

\* JSON.stringify(blocks) / JSON.parse(saved); a text that is no JSON does not parse
JSONstringify(bs) == [kind |-> "text", json |-> TRUE, value |-> bs]
CorruptText == [kind |-> "text", json |-> FALSE, value |-> << >>]
NoItem == [kind |-> "null", json |-> FALSE, value |-> << >>]
JSONparseThrows(text) == ~text.json
JSONparse(text) == text.value

\* the 0-based indices of an array of length n
Indices(s) == 0 .. Len(s) - 1
At(s, i) == s[i + 1]

\* the elements of an array
Elements(s) == {s[k] : k \in 1 .. Len(s)}

\* Array.prototype.findIndex(b => b.id === id): the first index, or -1
findIndex(s, id) ==
  IF \E i \in Indices(s) : At(s, i).id = id
  THEN CHOOSE i \in Indices(s) :
         At(s, i).id = id /\ \A j \in 0 .. i - 1 : At(s, j).id # id
  ELSE -1

\* the start index Array.prototype.splice works at: a negative start counts
\* from the end, and the result is clamped to 0..length
spliceStart(len, start) ==
  IF start < 0 THEN Max(len + start, 0) ELSE Min(start, len)

\* the elements reordered.splice(start, 1) removes (none when start = length)
spliceRemoved(s, start) ==
  LET k == spliceStart(Len(s), start)
  IN IF k < Len(s) THEN <<At(s, k)>> ELSE << >>

\* the array after reordered.splice(start, 1)
spliceDelete(s, start) ==
  LET k == spliceStart(Len(s), start)
  IN IF k < Len(s) THEN SubSeq(s, 1, k) \o SubSeq(s, k + 2, Len(s)) ELSE s

\* the array after reordered.splice(start, 0, item)
spliceInsert(s, start, item) ==
  LET k == spliceStart(Len(s), start)
  IN SubSeq(s, 1, k) \o <<item>> \o SubSeq(s, k + 1, Len(s))

\* Array.prototype.sort((a, b) => a.order - b.order): stable, ascending order
RECURSIVE InsertByOrder(_, _)
InsertByOrder(sorted, b) ==
  IF sorted = << >> THEN <<b>>
  ELSE IF Head(sorted).order <= b.order
       THEN <<Head(sorted)>> \o InsertByOrder(Tail(sorted), b)
       ELSE <<b>> \o sorted

RECURSIVE sortByOrder(_)
sortByOrder(s) ==
  IF s = << >> THEN << >>
  ELSE InsertByOrder(sortByOrder(SubSeq(s, 1, Len(s) - 1)), s[Len(s)])

\* blocks.filter(b => b.date === today).sort((a, b) => a.order - b.order)
todaysBlocksOf(bs, day) == sortByOrder(SelectSeq(bs, LAMBDA b : b.date = day))

(* ---------- STATE UPDATES ---------- *)
\* One entry of the update queue: the setState calls of one handler or effect
\* run.  Every entry has the same fields; an operation uses the ones it needs.
Update(op) ==
  [op |-> op, id |-> NoId, over |-> NoId, day |-> NoDay, items |-> << >>]

\* a variant that flips every block
toggleUpdaterAll(prev, id) ==
  [k \in 1 .. Len(prev) |-> [prev[k] EXCEPT !.completed = ~prev[k].completed]]

\* prev => prev.map(b => (b.id === id ? { ...b, completed: !b.completed } : b))
toggleUpdater(prev, id) ==
  [k \in 1 .. Len(prev) |->
     IF prev[k].id = id THEN [prev[k] EXCEPT !.completed = ~prev[k].completed]
     ELSE prev[k]]

\* a variant that removes by index: splice(findIndex(...), 1)
deleteUpdaterSplice(prev, id) == spliceDelete(prev, findIndex(prev, id))

\* prev => prev.filter(b => b.id !== id)
deleteUpdater(prev, id) == SelectSeq(prev, LAMBDA b : b.id # id)

\* a variant that exchanges the dragged block and the target
dragUpdaterSwap(prev, day, activeId, overId) ==
  LET todayItems == todaysBlocksOf(prev, day)
      oldIndex == findIndex(todayItems, activeId)
      newIndex == findIndex(todayItems, overId)
      reordered == IF oldIndex < 0 \/ newIndex < 0 THEN todayItems
                   ELSE [k \in 1 .. Len(todayItems) |->
                           IF k = oldIndex + 1 THEN At(todayItems, newIndex)
                           ELSE IF k = newIndex + 1 THEN At(todayItems, oldIndex)
                           ELSE todayItems[k]]
      updated == [k \in 1 .. Len(reordered) |-> [reordered[k] EXCEPT !.order = k - 1]]
      others == SelectSeq(prev, LAMBDA b : b.date # day)
  IN others \o updated

\* the updater of handleDragEnd, with the today, active.id and over.id of its closure
dragUpdater(prev, day, activeId, overId) ==
  LET todayItems == todaysBlocksOf(prev, day)
      oldIndex == findIndex(todayItems, activeId)
      newIndex == findIndex(todayItems, overId)
      removed == spliceRemoved(todayItems, oldIndex)
      \* const [moved] = ...: undefined when nothing was removed
      moved == IF removed = << >> THEN OrderOnly(NoId) ELSE removed[1]
      reordered == spliceInsert(spliceDelete(todayItems, oldIndex), newIndex, moved)
      updated == [k \in 1 .. Len(reordered) |-> [reordered[k] EXCEPT !.order = k - 1]]
      others == SelectSeq(prev, LAMBDA b : b.date # day)
  IN others \o updated

\* one queued entry applied to the blocks state
ApplyUpdate(prev, u) ==
  CASE u.op = "setBlocks" -> u.items
    [] u.op = "generated" -> prev \o u.items
    [] u.op = "addBlock" -> prev \o u.items
    [] u.op = "toggleBlock" -> toggleUpdater(prev, u.id)
    [] u.op = "deleteBlock" -> deleteUpdater(prev, u.id)
    [] u.op = "handleDragEnd" -> dragUpdater(prev, u.day, u.id, u.over)

\* the queue applied in order, as React does when it renders
RECURSIVE ApplyAll(_, _)
ApplyAll(prev, queue) ==
  IF queue = << >> THEN prev
  ELSE ApplyAll(ApplyUpdate(prev, Head(queue)), Tail(queue))

\* the blocks the next render will see
NextBlocks == ApplyAll(blocks, pending)

(* ---------- METRICS ---------- *)
LookbackDays == 365

\* the dates d with blocks.some(b => b.date === d && b.completed)
completedDates(bs) == {bs[k].date : k \in {j \in 1 .. Len(bs) : bs[j].completed}}

\* a variant that skips a day without a completed block instead of stopping
streakNoBreak(bs, day) ==
  LET dates == completedDates(bs)
  IN Cardinality({i \in 0 .. LookbackDays - 1 : day - i \in dates})

\* streak(blocks), with new Date() on the day `day`: s is incremented once per
\* iteration until the loop leaves, so s is the first i < LookbackDays whose
\* day has no completed block (the break), or LookbackDays when the loop runs out
streak(bs, day) ==
  LET dates == completedDates(bs)
      breaks == {i \in 0 .. LookbackDays - 1 : day - i \notin dates}
  IN IF breaks = {} THEN LookbackDays
     ELSE CHOOSE i \in breaks : \A j \in breaks : i <= j

\* a variant with Math.floor in place of Math.round
MathFloorPercent(num, den) == (100 * num) \div den

\* Math.round(num / den * 100) for 0 <= num <= den, den > 0: the nearest
\* integer, a half rounded up
MathRoundPercent(num, den) == (200 * num + den) \div (2 * den)

\* const completed = ...; const progress = ...
progressOf(bs, day) ==
  LET todaysBlocks == todaysBlocksOf(bs, day)
      completed == Len(SelectSeq(todaysBlocks, LAMBDA b : b.completed))
  IN IF Len(todaysBlocks) = 0 THEN 0
     ELSE MathRoundPercent(completed, Len(todaysBlocks))

\* the days of a calendar year (the years of the explored dates have no
\* 29 February)
DaysPerYear == 365

\* d.slice(5): the "MM-DD" of a date, which tells its day in the year and
\* not its year
slice5(d) == d % DaysPerYear

\* a variant that ends the seven days at yesterday
last7DaysOffByOne(day) == [k \in 1 .. 7 |-> day - (7 - (k - 1))]

\* last7Days(), with new Date() on the day `day`: Array.from({ length: 7 },
\* (_, i) => the date 6 - i days back), i the 0-based index k - 1
last7Days(day) == [k \in 1 .. 7 |-> day - (6 - (k - 1))]

\* const weeklyData = last7Days().map(d => ({ date: ..., completed: ... }))
weeklyDataOf(bs, day) ==
  LET days == last7Days(day)
  IN [k \in 1 .. Len(days) |->
        [date |-> slice5(days[k]),
         completed |-> Len(SelectSeq(bs, LAMBDA b : b.date = days[k] /\ b.completed))]]

(* ---------- COMPONENT ---------- *)
\* the derived values of the last render
todaysBlocks == todaysBlocksOf(blocks, today)
progress == progressOf(blocks, today)
weeklyData == weeklyDataOf(blocks, today)
todaysIds == {todaysBlocks[k].id : k \in 1 .. Len(todaysBlocks)}

\* the number of blocks a store holds after a recurring generation, at most
Projected(bs) == Len(bs) + Len(SelectSeq(bs, LAMBDA b : b.isRecurring))

Init ==
  /\ blocks = << >>
  /\ pending = << >>
  /\ now = 0
  /\ today = todayStr(0)
  /\ depToday = NoDay
  /\ storage \in {NoItem, CorruptText}
  /\ pc = "load"
  /\ untouched = TRUE

(* STORAGE *)
\* the first effect: const saved = localStorage.getItem("blocks");
\* if (saved) setBlocks(JSON.parse(saved)).  An exception thrown by an effect
\* is an uncaught error: React unmounts the component, the later effects of
\* the commit do not run.
LoadEffect ==
  /\ pc = "load"
  /\ IF storage.kind = "null"
     THEN pc' = "save" /\ pending' = pending
     ELSE IF JSONparseThrows(storage)
          THEN pc' = "crashed" /\ pending' = pending
          ELSE /\ pc' = "save"
               /\ pending' = Append(pending,
                    [Update("setBlocks") EXCEPT !.items = JSONparse(storage)])
  /\ UNCHANGED <<blocks, today, depToday, storage, now, untouched>>

\* the second effect, deps [blocks]
SaveEffect ==
  /\ pc = "save"
  /\ storage' = JSONstringify(blocks)
  /\ pc' = IF today # depToday THEN "recur" ELSE "idle"
  /\ UNCHANGED <<blocks, pending, today, depToday, now, untouched>>

(* RECURRING *)
\* the blocks the recurring effect generates from the blocks and today of its
\* render; rnd[k] is the Math.random() of the k-th template
templatesOf(bs, day) == SelectSeq(bs, LAMBDA b : b.isRecurring /\ b.date # day)

\* a variant without the existsToday check
generatedAlways(bs, day, t, rnd) ==
  LET templates == templatesOf(bs, day)
  IN [k \in 1 .. Len(templates) |->
        [templates[k] EXCEPT !.id = t * RandRes + rnd[k],
                             !.completed = FALSE,
                             !.date = day]]

\* a variant that leaves out completed: false
generatedKeepCompleted(bs, day, t, rnd) ==
  LET templates == templatesOf(bs, day)
      existsToday == \E b \in Elements(bs) : b.isRecurring /\ b.date = day
  IN IF existsToday THEN << >>
     ELSE [k \in 1 .. Len(templates) |->
             [templates[k] EXCEPT !.id = t * RandRes + rnd[k],
                                  !.date = day]]

generatedOf(bs, day, t, rnd) ==
  LET templates == templatesOf(bs, day)
      existsToday == \E b \in Elements(bs) : b.isRecurring /\ b.date = day
  IN IF existsToday THEN << >>
     ELSE [k \in 1 .. Len(templates) |->
             [templates[k] EXCEPT !.id = t * RandRes + rnd[k],
                                  !.completed = FALSE,
                                  !.date = day]]

\* the third effect, deps [today]
RecurringEffect ==
  /\ pc = "recur"
  /\ \E rnd \in [1 .. Len(templatesOf(blocks, today)) -> 0 .. RandRes - 1] :
       LET generated == generatedOf(blocks, today, now, rnd)
       IN pending' = IF Len(generated) > 0
                     THEN Append(pending, [Update("generated") EXCEPT !.items = generated])
                     ELSE pending
  /\ depToday' = today
  /\ pc' = "idle"
  /\ UNCHANGED <<blocks, today, storage, now, untouched>>

\* a variant that schedules no save effect
RenderNoSave ==
  /\ pc = "idle"
  /\ pending # << >>
  /\ blocks' = NextBlocks
  /\ pending' = << >>
  /\ today' = todayStr(now)
  /\ pc' = IF today' # depToday THEN "recur" ELSE "idle"
  /\ UNCHANGED <<depToday, storage, now, untouched>>

\* React renders Home again: the queued updates are applied in order, today is
\* read from the clock, and the effects whose dependencies changed are
\* scheduled (every queued update sets blocks to a new array)
Render ==
  /\ pc = "idle"
  /\ pending # << >>
  /\ blocks' = NextBlocks
  /\ pending' = << >>
  /\ today' = todayStr(now)
  /\ pc' = "save"
  /\ UNCHANGED <<depToday, storage, now, untouched>>

(* ACTIONS *)
\* The handlers run on the values of the last render; up to MaxPending calls
\* are queued before React renders again.
CanHandle == pc = "idle" /\ Len(pending) < MaxPending

\* the block addBlock builds from the values of its closure
newBlockOf(newBlock, category, isRecurring) ==
  Block(now * RandRes, newBlock, FALSE, category, today, isRecurring,
        Len(todaysBlocks))

\* the form values an addBlock call reads are those of the last render: the
\* blocks queued by addBlock since then were built from the same values
sameClosure(newBlock, category, isRecurring) ==
  \A k \in 1 .. Len(pending) :
    pending[k].op = "addBlock" =>
      /\ pending[k].items[1].title = newBlock
      /\ pending[k].items[1].category = category
      /\ pending[k].items[1].isRecurring = isRecurring

\* a variant that tests the title without trimming it
addBlockNoTrim(newBlock, category, isRecurring) ==
  /\ CanHandle
  /\ sameClosure(newBlock, category, isRecurring)
  /\ IF newBlock = << >>
     THEN pending' = pending
     ELSE pending' = Append(pending,
            [Update("addBlock") EXCEPT
               !.items = <<newBlockOf(newBlock, category, isRecurring)>>])
  /\ untouched' = FALSE
  /\ UNCHANGED <<blocks, today, depToday, storage, now, pc>>

addBlock(newBlock, category, isRecurring) ==
  /\ CanHandle
  /\ sameClosure(newBlock, category, isRecurring)
  /\ IF trim(newBlock) = << >>
     THEN pending' = pending
     ELSE pending' = Append(pending,
            [Update("addBlock") EXCEPT
               !.items = <<newBlockOf(newBlock, category, isRecurring)>>])
  /\ untouched' = FALSE
  /\ UNCHANGED <<blocks, today, depToday, storage, now, pc>>

\* onChange of the checkbox of a rendered block
toggleBlock(id) ==
  /\ CanHandle
  /\ id \in todaysIds
  /\ pending' = Append(pending, [Update("toggleBlock") EXCEPT !.id = id])
  /\ untouched' = FALSE
  /\ UNCHANGED <<blocks, today, depToday, storage, now, pc>>

\* onClick of the delete button of a rendered block
deleteBlock(id) ==
  /\ CanHandle
  /\ id \in todaysIds
  /\ pending' = Append(pending, [Update("deleteBlock") EXCEPT !.id = id])
  /\ untouched' = FALSE
  /\ UNCHANGED <<blocks, today, depToday, storage, now, pc>>

\* if (!over || active.id === over.id) return
dragIgnored(activeId, overId) == overId = NoId \/ activeId = overId

\* onDragEnd: active is a rendered block, over a rendered block or null (NoId)
handleDragEnd(activeId, overId) ==
  /\ CanHandle
  /\ activeId \in todaysIds
  /\ overId \in todaysIds \cup {NoId}
  /\ IF dragIgnored(activeId, overId)
     THEN pending' = pending
     ELSE pending' = Append(pending,
            [Update("handleDragEnd") EXCEPT !.id = activeId, !.over = overId,
                                            !.day = today])
  /\ untouched' = FALSE
  /\ UNCHANGED <<blocks, today, depToday, storage, now, pc>>

\* the store a handleDragEnd call makes of the store bs, once React has
\* applied its update
reorderOf(bs, day, activeId, overId) ==
  IF dragIgnored(activeId, overId) THEN bs
  ELSE dragUpdater(bs, day, activeId, overId)

(* ENVIRONMENT *)
\* the stored blocks, empty when the item is missing or does not parse
storedBlocks == IF storage.json THEN storage.value ELSE << >>

\* the clock advances by one tick
Tick ==
  /\ now' = now + 1
  /\ UNCHANGED <<blocks, pending, today, depToday, storage, pc, untouched>>

\* the page is loaded again: Home is constructed and rendered a first time;
\* localStorage and the clock are all that is kept
Reload ==
  /\ blocks' = << >>
  /\ pending' = << >>
  /\ today' = todayStr(now)
  /\ depToday' = NoDay
  /\ pc' = "load"
  /\ untouched' = TRUE
  /\ UNCHANGED <<storage, now>>

(* ---------- SPECIFICATIONS ---------- *)
\* The explored runs are bounded: the user adds a block while fewer than
\* maxBlocks are there, and a midnight passes only while a recurring
\* generation keeps every store within maxStore blocks.
addBlockWithin(newBlock, category, isRecurring, maxBlocks, maxStore) ==
  /\ trim(newBlock) # << >> =>
       /\ Len(NextBlocks) < maxBlocks
       /\ todayStr(now) # today =>
            Projected(NextBlocks \o <<newBlockOf(newBlock, category, isRecurring)>>)
              <= maxStore
  /\ addBlock(newBlock, category, isRecurring)

handleDragEndWithin(activeId, overId, maxStore) ==
  /\ Len(dragUpdater(NextBlocks, today, activeId, overId)) <= maxStore
  /\ handleDragEnd(activeId, overId)

TickWithin(maxDay, maxStore) ==
  /\ now + 1 < maxDay * MsPerDay
  /\ todayStr(now + 1) # todayStr(now) =>
       /\ Projected(NextBlocks) <= maxStore
       /\ Projected(storedBlocks) <= maxStore
  /\ Tick

\* every operation, over MaxDay days; up to MaxPending handler calls are
\* queued before React renders
Next ==
  \/ LoadEffect
  \/ SaveEffect
  \/ RecurringEffect
  \/ Render
  \/ \E form \in FormInputs, rec \in BOOLEAN :
       addBlockWithin(form[1], form[2], rec, MaxBlocks, MaxBlocks)
  \/ \E id \in todaysIds : toggleBlock(id)
  \/ \E id \in todaysIds : deleteBlock(id)
  \/ \E a \in todaysIds, o \in todaysIds \cup {NoId} :
       handleDragEndWithin(a, o, MaxBlocks)
  \/ TickWithin(MaxDay, MaxBlocks)
  \/ Reload

Spec == Init /\ [][Next]_vars

\* the same operations when React renders after every handler call, as it
\* does for the click, change and key events of the page
NextSync ==
  \/ LoadEffect
  \/ SaveEffect
  \/ RecurringEffect
  \/ Render
  \/ \E form \in FormInputs, rec \in BOOLEAN :
       pending = << >> /\ addBlockWithin(form[1], form[2], rec, MaxBlocks, MaxBlocks)
  \/ \E id \in todaysIds : pending = << >> /\ toggleBlock(id)
  \/ \E id \in todaysIds : pending = << >> /\ deleteBlock(id)
  \/ \E a \in todaysIds, o \in todaysIds \cup {NoId} :
       pending = << >> /\ handleDragEndWithin(a, o, MaxBlocks)
  \/ TickWithin(MaxDay, MaxBlocks)
  \/ Reload

SpecSync == Init /\ [][NextSync]_vars

\* several days of use: the user adds MaxOwnBlocks recurring blocks and
\* ticks checkboxes, React renders after every handler call, the clock runs
\* over MaxRecurDays days and a store grows to MaxStore blocks
NextDays ==
  \/ LoadEffect
  \/ SaveEffect
  \/ RecurringEffect
  \/ Render
  \/ \E form \in FormInputs :
       pending = << >> /\ addBlockWithin(form[1], form[2], TRUE, MaxOwnBlocks, MaxStore)
  \/ \E id \in todaysIds : pending = << >> /\ toggleBlock(id)
  \/ TickWithin(MaxRecurDays, MaxStore)

SpecDays == Init /\ [][NextDays]_vars

\* one day of ordering: the user adds up to MaxOrderBlocks blocks, deletes
\* and drags them, React renders after every handler call
MaxOrderBlocks == 3

NextOrder ==
  \/ LoadEffect
  \/ SaveEffect
  \/ RecurringEffect
  \/ Render
  \/ \E form \in FormInputs :
       pending = << >>
         /\ addBlockWithin(form[1], form[2], FALSE, MaxOrderBlocks, MaxOrderBlocks)
  \/ \E id \in todaysIds : pending = << >> /\ toggleBlock(id)
  \/ \E id \in todaysIds : pending = << >> /\ deleteBlock(id)
  \/ \E a \in todaysIds, o \in todaysIds \cup {NoId} :
       pending = << >> /\ handleDragEndWithin(a, o, MaxOrderBlocks)
  \/ TickWithin(1, MaxOrderBlocks)

SpecOrder == Init /\ [][NextOrder]_vars

(* ---------- METRICS OF A STORED HISTORY ---------- *)
\* the day the histories below end at: late enough for a full lookback
HistoryToday == LookbackDays + 1

\* the blocks of one day of a history: one per flag, completed as flagged
dayBlocks(day, flags, firstId) ==
  [k \in 1 .. Len(flags) |->
     Block(firstId + k, <<"R", "u", "n">>, flags[k], "Health", day, FALSE, k - 1)]

\* the completed flags of the blocks of one day, at most n blocks
flagSeqs(n) == UNION {[1 .. m -> BOOLEAN] : m \in 0 .. n}

\* an earlier day has no block, an open block or a completed block
earlierFlags == {<< >>, <<FALSE>>, <<TRUE>>}

MaxHistoryDays == 3
MaxHistoryToday == 3

\* a short history: today's blocks and those of the MaxHistoryDays days before
RECURSIVE earlierBlocks(_, _)
earlierBlocks(flagsOf, i) ==
  IF i = 0 THEN << >>
  ELSE earlierBlocks(flagsOf, i - 1)
         \o dayBlocks(HistoryToday - i, flagsOf[i], 10 * i)

shortHistories ==
  {earlierBlocks(flagsOf, MaxHistoryDays) \o dayBlocks(HistoryToday, flags, 0) :
     flagsOf \in [1 .. MaxHistoryDays -> earlierFlags],
     flags \in flagSeqs(MaxHistoryToday)}

\* a long history: one completed block on each of the last n days
longHistory(n) ==
  [k \in 1 .. n |->
     Block(k, <<"R", "u", "n">>, TRUE, "Health", HistoryToday - (n - k), FALSE, 0)]

longHistories ==
  {longHistory(n) : n \in LookbackDays - 1 .. LookbackDays + 1}

\* the page shows a stored history: it was loaded, rendered and saved
InitMetrics ==
  /\ blocks \in shortHistories \cup longHistories
  /\ pending = << >>
  /\ now = HistoryToday * MsPerDay
  /\ today = HistoryToday
  /\ depToday = HistoryToday
  /\ storage = JSONstringify(blocks)
  /\ pc = "idle"
  /\ untouched = TRUE

\* the user ticks checkboxes and the page renders the metrics again
NextMetrics ==
  \/ \E id \in todaysIds : pending = << >> /\ toggleBlock(id)
  \/ Render
  \/ SaveEffect

SpecMetrics == InitMetrics /\ [][NextMetrics]_vars

(* ---------- PROPERTIES ---------- *)
\* the component is at rest: no effect is due and no update is queued
Quiescent == pc = "idle" /\ pending = << >>

\* C1: order density.  For every date with at least one block, the order
\* values of the blocks of that date are exactly 0 .. n-1, each once, n the
\* number of blocks of that date.
C1_OrderDensity ==
  \A k \in 1 .. Len(blocks) :
    LET sameDate == {j \in 1 .. Len(blocks) : blocks[j].date = blocks[k].date}
    IN /\ {blocks[j].order : j \in sameDate} = 0 .. Cardinality(sameDate) - 1
       /\ \A i, j \in sameDate : blocks[i].order = blocks[j].order => i = j

\* C2: the recurrence pass runs at startup.  When Home has been constructed
\* and its mount effects have run, and no handler has run since, a store with
\* a recurring block dated before today also has a recurring block dated
\* today with the same title and category (with none in the snapshot it is
\* the block the pass generated).
C2_StartupRecurrence ==
  (untouched /\ Quiescent) =>
    \A k \in 1 .. Len(blocks) :
      (blocks[k].isRecurring /\ blocks[k].date < today) =>
        \E j \in 1 .. Len(blocks) :
          /\ blocks[j].isRecurring
          /\ blocks[j].date = today
          /\ blocks[j].title = blocks[k].title
          /\ blocks[j].category = blocks[k].category

\* C3: idempotent recurrence.  A second recurrence pass for the same today,
\* run on the store the first pass leaves, generates no block.
C3_IdempotentRecurrence ==
  LET zeros(n) == [k \in 1 .. n |-> 0]
      first == generatedOf(blocks, today, now, zeros(Len(blocks)))
      once == blocks \o first
  IN generatedOf(once, today, now, zeros(Len(once))) = << >>

\* C3 witness: a pass generated blocks from templates, React applied them,
\* and the templates are still in the store for a second pass to find
C3_Witness ==
  /\ Quiescent
  /\ depToday = today
  /\ templatesOf(blocks, today) # << >>
  /\ \E b \in Elements(blocks) : b.isRecurring /\ b.date = today /\ ~b.completed
  /\ \E k \in 1 .. Len(blocks) :
       blocks[k].date = today /\ blocks[k].isRecurring
         /\ \E j \in 1 .. k - 1 : blocks[j].date < today /\ blocks[j].isRecurring
                                    /\ blocks[j].title = blocks[k].title

\* C4: one instance per recurring task.  After the recurrence pass for today
\* (it has run and its blocks are in the store), every recurring task, that
\* is every title and category of a recurring block, has exactly one recurring
\* block dated today.
C4_OneInstancePerTask ==
  (Quiescent /\ depToday = today) =>
    \A k \in 1 .. Len(blocks) :
      blocks[k].isRecurring =>
        Cardinality({j \in 1 .. Len(blocks) :
                       /\ blocks[j].isRecurring
                       /\ blocks[j].date = today
                       /\ blocks[j].title = blocks[k].title
                       /\ blocks[j].category = blocks[k].category}) = 1

\* C5: block ids are unique.  No two blocks of the store have the same id.
C5_UniqueIds ==
  \A i, j \in 1 .. Len(blocks) : blocks[i].id = blocks[j].id => i = j

\* C6: reorder with an unknown id is a no-op.  A queued handleDragEnd update
\* whose active or over id is no block of its day's partition, in the store it
\* is applied to, leaves that store unchanged.
C6_ReorderUnknownNoOp ==
  \A k \in 1 .. Len(pending) :
    LET u == pending[k]
        prev == ApplyAll(blocks, SubSeq(pending, 1, k - 1))
        ids == {prev[j].id : j \in {i \in 1 .. Len(prev) : prev[i].date = u.day}}
    IN (u.op = "handleDragEnd" /\ (u.id \notin ids \/ u.over \notin ids \/ u.id = u.over))
         => ApplyUpdate(prev, u) = prev

\* C7: a corrupt snapshot fails open.  The load never ends in an error state.
C7_LoadFailsOpen == pc # "crashed"

\* C8: write-through persistence.  Once the save effect of a render has run,
\* and so in every state at rest, the stored snapshot is the in-memory store.
C8_WriteThrough ==
  pc \in {"recur", "idle"} => storage = JSONstringify(blocks)

\* C8 witness: at rest after a mutation, a completed block is stored
C8_Witness ==
  /\ Quiescent
  /\ ~untouched
  /\ \E b \in Elements(blocks) : b.completed
  /\ storage = JSONstringify(blocks)

\* C9: streak.  streak() is the number of consecutive days, counted backward
\* from today, that each have a completed block; it stops at the first day
\* without one and at LookbackDays.
C9_Streak ==
  LET counting == {blocks[k].date : k \in {j \in 1 .. Len(blocks) : blocks[j].completed}}
      counts(d) == d \in counting
      s == streak(blocks, today)
  IN /\ s \in 0 .. LookbackDays
     /\ \A i \in 0 .. s - 1 : counts(today - i)
     /\ s < LookbackDays => ~counts(today - s)

\* C9 witness: completed blocks on today, today-1 and today-2, none on
\* today-3, and a streak of 3
C9_Witness ==
  /\ \A i \in 0 .. 2 : \E b \in Elements(blocks) : b.date = today - i /\ b.completed
  /\ ~\E b \in Elements(blocks) : b.date = today - 3 /\ b.completed
  /\ \E b \in Elements(blocks) : b.date = today /\ ~b.completed
  /\ streak(blocks, today) = 3

\* C10: progress.  progress() is 0 with no block dated today, and otherwise
\* the integer in 0..100 nearest to 100 * completed / total over today's blocks.
C10_Progress ==
  LET total == Cardinality({k \in 1 .. Len(blocks) : blocks[k].date = today})
      done == Cardinality({k \in 1 .. Len(blocks) :
                             blocks[k].date = today /\ blocks[k].completed})
      diff == total * progress - 100 * done
  IN IF total = 0 THEN progress = 0
     ELSE /\ progress \in 0 .. 100
          /\ 2 * diff <= total
          /\ 2 * diff >= -total

\* C10 witness: 3 blocks today, 1 of them completed after the user ticked it,
\* and a progress of 33
C10_Witness ==
  /\ ~untouched
  /\ Len(todaysBlocks) = 3
  /\ Len(SelectSeq(todaysBlocks, LAMBDA b : b.completed)) = 1
  /\ progress = 33

\* C11: weekly histogram.  weeklyData has exactly 7 entries, for the 7 days
\* that end at today, oldest first, and the count of an entry is the number of
\* completed blocks of its day (0 for a day with none, all 0 for an empty store).
C11_WeeklyHistogram ==
  /\ Len(weeklyData) = 7
  /\ \A i \in 1 .. 7 :
       LET d == today - (7 - i)
       IN /\ weeklyData[i].date = slice5(d)
          /\ weeklyData[i].completed =
               Cardinality({k \in 1 .. Len(blocks) :
                              blocks[k].date = d /\ blocks[k].completed})
  /\ blocks = << >> => \A i \in 1 .. 7 : weeklyData[i].completed = 0

\* C11 witness: after the user ticked a box, 2 completed blocks today, 1 the
\* day before, an open block and so a count of 0 the day before that
C11_Witness ==
  /\ ~untouched
  /\ Quiescent
  /\ weeklyData[7].completed = 2
  /\ weeklyData[6].completed = 1
  /\ weeklyData[5].completed = 0
  /\ \E b \in Elements(blocks) : b.date = today - 2 /\ ~b.completed

\* a sequence of blocks without their order values
withoutOrder(s) == [k \in 1 .. Len(s) |-> [s[k] EXCEPT !.order = 0]]

\* C12: reorder round-trip.  For distinct blocks A and B of today's partition,
\* reorder(A, B) and then reorder of A onto the block that is now at A's
\* original position give the original sequence of the partition back.
C12_ReorderRoundTrip ==
  \A a, b \in 1 .. Len(todaysBlocks) :
    a # b =>
      LET A == todaysBlocks[a]
          B == todaysBlocks[b]
          there == reorderOf(blocks, today, A.id, B.id)
          neighbour == todaysBlocksOf(there, today)[a]
          back == reorderOf(there, today, A.id, neighbour.id)
      IN withoutOrder(todaysBlocksOf(back, today)) = withoutOrder(todaysBlocks)

\* C13: addBlock with an empty or whitespace-only title is a no-op.  A call
\* of addBlock with such a title leaves the store, the queued updates (and so
\* the store of the next render) and the stored snapshot as they are: no block
\* is added.
C13_BlankTitleNoOp ==
  [][\A form \in FormInputs, rec \in BOOLEAN :
       (trim(form[1]) = << >> /\ addBlock(form[1], form[2], rec))
         => UNCHANGED <<blocks, pending, storage, pc>>]_vars

\* C13 witness: a handler has been called, and the page is at rest with no
\* block in the store or in the snapshot, as after addBlock with a blank title
C13_Witness ==
  /\ ~untouched
  /\ Quiescent
  /\ blocks = << >>
  /\ storage = JSONstringify(<< >>)

\* the queued toggleBlock and deleteBlock updates whose id no block has in
\* the store they are applied to
unknownIdUpdates ==
  {k \in 1 .. Len(pending) :
     LET prev == ApplyAll(blocks, SubSeq(pending, 1, k - 1))
     IN /\ pending[k].op \in {"toggleBlock", "deleteBlock"}
        /\ \A b \in Elements(prev) : b.id # pending[k].id}

\* C14: toggleBlock and deleteBlock with an unknown id are no-ops.  A queued
\* toggleBlock or deleteBlock update whose id no block has, in the store it is
\* applied to, leaves that store unchanged, and the component is in no error
\* state.
C14_UnknownIdNoOp ==
  \A k \in unknownIdUpdates :
    LET prev == ApplyAll(blocks, SubSeq(pending, 1, k - 1))
    IN /\ ApplyUpdate(prev, pending[k]) = prev
       /\ pc # "crashed"

\* C14 witness: the user deleted a block and, before React rendered, clicked
\* its checkbox or its delete button again, while another block is in the store
C14_Witness ==
  /\ unknownIdUpdates # {}
  /\ Len(pending) = 2
  /\ pending[1].op = "deleteBlock"
  /\ pending[2].id = pending[1].id
  /\ ApplyUpdate(blocks, pending[1]) # << >>

\* C15: addBlock is an atomic read-modify-write of the store.  The order of
\* the block a queued addBlock update inserts is the number of blocks of its
\* date in the store the update is applied to, also when another addBlock or
\* a deleteBlock was called before React rendered.
C15_AddBlockAtomic ==
  \A k \in 1 .. Len(pending) :
    pending[k].op = "addBlock" =>
      LET prev == ApplyAll(blocks, SubSeq(pending, 1, k - 1))
          new == pending[k].items[1]
      IN new.order = Len(SelectSeq(prev, LAMBDA b : b.date = new.date))

\* C16: generated blocks are ordered by the today-append rule.  The k-th block
\* (k = 0, 1, ...) of a recurrence pass has order = (the number of blocks
\* dated today in the store the pass adds to) + k.
C16_GeneratedOrderAppends ==
  \A k \in 1 .. Len(pending) :
    pending[k].op = "generated" =>
      LET prev == ApplyAll(blocks, SubSeq(pending, 1, k - 1))
          generated == pending[k].items
      IN \A i \in 1 .. Len(generated) :
           generated[i].order =
             Len(SelectSeq(prev, LAMBDA b : b.date = generated[i].date)) + (i - 1)

\* C17: the recurrence pass.  When the pass runs on a store without a
\* recurring block dated today, it appends exactly one block per stored
\* recurring block of another date, in one update: the block has the title,
\* category and isRecurring of its template, is not completed and is dated
\* today; the blocks that were there stay as they are.
C17_RecurrencePass ==
  [][(RecurringEffect /\ ~\E b \in Elements(blocks) : b.isRecurring /\ b.date = today) =>
       LET from == {k \in 1 .. Len(blocks) :
                      blocks[k].isRecurring /\ blocks[k].date # today}
           nth(i) == CHOOSE k \in from : Cardinality({j \in from : j < k}) = i - 1
           store == NextBlocks
       IN /\ blocks' = blocks
          /\ storage' = storage
          /\ IF from = {}
             THEN pending' = pending
             ELSE /\ Len(pending') = Len(pending) + 1
                  /\ SubSeq(pending', 1, Len(pending)) = pending
                  /\ LET batch == pending'[Len(pending')]
                         after == ApplyUpdate(store, batch)
                     IN /\ Len(batch.items) = Cardinality(from)
                        /\ Len(after) = Len(store) + Cardinality(from)
                        /\ SubSeq(after, 1, Len(store)) = store
                        /\ \A i \in 1 .. Cardinality(from) :
                             LET new == after[Len(store) + i]
                                 template == blocks[nth(i)]
                             IN /\ new.title = template.title
                                /\ new.category = template.category
                                /\ new.isRecurring = template.isRecurring
                                /\ new.completed = FALSE
                                /\ new.date = today]_vars

\* C17 witness: a pass has generated two blocks from two templates, one of
\* them completed, and the update is queued
C17_Witness ==
  /\ pc = "idle"
  /\ depToday = today
  /\ Len(pending) = 1
  /\ pending[1].op = "generated"
  /\ Len(pending[1].items) = 2
  /\ \E b \in Elements(blocks) : b.isRecurring /\ b.completed
  /\ ~\E b \in Elements(blocks) : b.date = today

\* a sequence without its element at position i
withoutAt(s, i) == SubSeq(s, 1, i - 1) \o SubSeq(s, i + 1, Len(s))

\* how often the block b is in the array s
countOf(s, b) == Cardinality({k \in 1 .. Len(s) : s[k] = b})

\* the queued handleDragEnd updates whose two ids are distinct and both in
\* today's partition of the store they are applied to
knownIdDrags ==
  {k \in 1 .. Len(pending) :
     LET prev == ApplyAll(blocks, SubSeq(pending, 1, k - 1))
         ids == {b.id : b \in Elements(SelectSeq(prev, LAMBDA b : b.date = pending[k].day))}
     IN /\ pending[k].op = "handleDragEnd"
        /\ pending[k].id # pending[k].over
        /\ pending[k].id \in ids
        /\ pending[k].over \in ids}

\* C18: reorder.  For distinct ids both in today's partition, the moved block
\* leaves today's sequence (ascending order) and comes back at the index the
\* target had, the other blocks keep their relative order, every block of the
\* partition gets order = its index, and the store holds the same blocks.
C18_ReorderMoves ==
  \A k \in knownIdDrags :
    LET u == pending[k]
        prev == ApplyAll(blocks, SubSeq(pending, 1, k - 1))
        before == todaysBlocksOf(prev, u.day)
        from == CHOOSE i \in 1 .. Len(before) :
                  before[i].id = u.id /\ \A j \in 1 .. i - 1 : before[j].id # u.id
        to == CHOOSE i \in 1 .. Len(before) :
                before[i].id = u.over /\ \A j \in 1 .. i - 1 : before[j].id # u.over
        next == ApplyUpdate(prev, u)
        after == todaysBlocksOf(next, u.day)
    IN /\ Len(after) = Len(before)
       /\ withoutOrder(after)[to] = withoutOrder(before)[from]
       /\ withoutAt(withoutOrder(after), to) = withoutAt(withoutOrder(before), from)
       /\ \A i \in 1 .. Len(after) : after[i].order = i - 1
       /\ Len(next) = Len(prev)
       /\ \A b \in Elements(withoutOrder(prev)) \cup Elements(withoutOrder(next)) :
            countOf(withoutOrder(next), b) = countOf(withoutOrder(prev), b)
       /\ \A b \in Elements(prev) : b.date # u.day => countOf(next, b) = countOf(prev, b)

\* C18 witness: the first of three blocks of today is dragged onto the third
C18_Witness ==
  /\ knownIdDrags = {1}
  /\ Len(todaysBlocks) = 3
  /\ C5_UniqueIds
  /\ pending[1].id = todaysBlocks[1].id
  /\ pending[1].over = todaysBlocks[3].id

C20_StartupKeepsSnapshot ==
  (untouched /\ pending # << >> /\ pending[1].op = "setBlocks") =>
    \A b \in Elements(pending[1].items) : b \in Elements(storedBlocks)

====
